---- MODULE Spec2Model ----
(***************************************************************************)
(* A model of text-model (src/index.js): the conversion between a DOM tree *)
(* and a Range Model {text, blocks}, and split / concat on Range Models.   *)
(*                                                                         *)
(* Representation.                                                         *)
(*   - a string is a sequence of one-character strings;                    *)
(*   - a DOM node is a record [nodeName, nodeValue, attributes,            *)
(*     childNodes]; nodeType is read off nodeName ("#text",                *)
(*     "#document-fragment", anything else is an element); attributes is   *)
(*     a set of <<name, value>> pairs;                                     *)
(*   - model.blocks, a JS object, is the sequence of its entries in key    *)
(*     insertion order (the order _.forOwn and Object.keys iterate in);    *)
(*     an entry is [kind, ref, list]: kind is the key, list the array, and *)
(*     ref names the allocation of the array, so that two entries of the   *)
(*     same kind are the same JS array exactly when their refs are equal;  *)
(*   - a propertied block is [start, end, attrs], attrs being the other    *)
(*     own keys of the JS object (attribute names are drawn from a set     *)
(*     that holds neither "start" nor "end").                              *)
(***************************************************************************)
EXTENDS Integers, Sequences, FiniteSets, TLC

VARIABLES phase, origin, model, pending, visited, num, before, after, other, merged, el, again

vars == <<phase, origin, model, pending, visited, num, before, after, other, merged, el, again>>

\* Longest text a walk builds and a concat of the driver returns.
MaxText == 4
\* Most elements one walk of fromElement visits.
MaxElements == 2

\* The i-th character of every ingested text.
Alphabet == <<"a", "b", "c", "d", "e", "f", "g", "h">>

Max(a, b) == IF a >= b THEN a ELSE b
Min(a, b) == IF a <= b THEN a ELSE b

(***************************************************************************)
(* DOM nodes                                                               *)
(***************************************************************************)
TextNode(value) ==
  [nodeName |-> "#text", nodeValue |-> value, attributes |-> {}, childNodes |-> <<>>]

Element(tagName, attributes, childNodes) ==
  [nodeName |-> tagName, nodeValue |-> <<>>, attributes |-> attributes,
   childNodes |-> childNodes]

DocumentFragment(childNodes) == Element("#document-fragment", {}, childNodes)

\* domify(str) for a string without markup: one text node (also for '').
domify(str) == TextNode(str)

(***************************************************************************)
(* Tag registry                                                            *)
(***************************************************************************)
tagTypes ==
  ("B" :> [set |-> "continuous", name |-> "bold"]) @@
  ("I" :> [set |-> "continuous", name |-> "italic"]) @@
  ("U" :> [set |-> "continuous", name |-> "underline"]) @@
  ("EM" :> [set |-> "continuous", name |-> "emphasis"]) @@
  ("STRONG" :> [set |-> "continuous", name |-> "strong"]) @@
  ("PRE" :> [set |-> "continuous", name |-> "pre"]) @@
  ("DEL" :> [set |-> "continuous", name |-> "del"]) @@
  ("H1" :> [set |-> "continuous", name |-> "h1"]) @@
  ("H2" :> [set |-> "continuous", name |-> "h2"]) @@
  ("H3" :> [set |-> "continuous", name |-> "h3"]) @@
  ("H4" :> [set |-> "continuous", name |-> "h4"]) @@
  ("H5" :> [set |-> "continuous", name |-> "h5"]) @@
  ("H6" :> [set |-> "continuous", name |-> "h6"]) @@
  ("A" :> [set |-> "propertied", name |-> "link"]) @@
  ("SPAN" :> [set |-> "propertied", name |-> "span"]) @@
  ("BLOCKQUOTE" :> [set |-> "propertied", name |-> "block quote"]) @@
  ("Q" :> [set |-> "propertied", name |-> "quote"]) @@
  ("CITE" :> [set |-> "propertied", name |-> "cite"]) @@
  ("CODE" :> [set |-> "propertied", name |-> "code"]) @@
  ("BR" :> [set |-> "singled", name |-> "soft return"])

blockTypes ==
  [blockName \in {tagTypes[t].name : t \in DOMAIN tagTypes} |->
     LET t == CHOOSE t \in DOMAIN tagTypes : tagTypes[t].name = blockName
     IN  [set |-> tagTypes[t].set, name |-> t]]

sameAs ==
  ("B" :> "STRONG") @@ ("U" :> "EM") @@ ("I" :> "EM") @@ ("H1" :> "H2") @@
  ("H3" :> "H2") @@ ("H4" :> "H2") @@ ("H5" :> "H2") @@ ("H6" :> "H2") @@
  ("STRIKE" :> "DEL")

(***************************************************************************)
(* Range Models                                                            *)
(***************************************************************************)
EmptyModel == [text |-> <<>>, blocks |-> <<>>]

HasBlock(blocks, blockName) == \E i \in DOMAIN blocks : blocks[i].kind = blockName

BlockIndex(blocks, blockName) == CHOOSE i \in DOMAIN blocks : blocks[i].kind = blockName

\* blocks[blockName], an array known to be there
BlockOf(blocks, blockName) == blocks[BlockIndex(blocks, blockName)].list

\* blocks[blockName] = list, the array being the allocation ref
SetBlock(blocks, blockName, ref, list) ==
  IF HasBlock(blocks, blockName)
  THEN [blocks EXCEPT ![BlockIndex(blocks, blockName)] =
          [kind |-> blockName, ref |-> ref, list |-> list]]
  ELSE Append(blocks, [kind |-> blockName, ref |-> ref, list |-> list])

(***************************************************************************)
(* Ingest: fromElement                                                     *)
(***************************************************************************)
\* contentTextOnly(node), node a text node whose parent is named parentName
contentTextOnly(parentName) == ~(parentName \in {"SCRIPT", "STYLE"})

\* knownTagsOnly(node), node's parent being named parentName
knownTagsOnly(node, parentName) ==
  \/ node.nodeName \in DOMAIN tagTypes
  \/ node.nodeName = "#text" /\ contentTextOnly(parentName)

RECURSIVE textUnder(_, _)
\* the text a TreeWalker(SHOW_TEXT, contentTextOnly) collects from these
\* children of a node named parentName, in document order
textUnder(childNodes, parentName) ==
  IF childNodes = <<>> THEN <<>>
  ELSE LET node == Head(childNodes)
           own == IF node.nodeName = "#text"
                  THEN IF contentTextOnly(parentName) THEN node.nodeValue ELSE <<>>
                  ELSE textUnder(node.childNodes, node.nodeName)
       IN  own \o textUnder(Tail(childNodes), parentName)

getContentText(elem) == textUnder(elem.childNodes, elem.nodeName)

getAttributes(elem) == elem.attributes

\* a getNodeName that does not look the tag up in sameAs
getNodeName_NoAlias(node) == node.nodeName

getNodeName(node) ==
  IF node.nodeName \in DOMAIN sameAs THEN sameAs[node.nodeName] ELSE node.nodeName

continuous(m, node) ==
  LET start == Len(m.text)
      text == getContentText(node)
      end == start + Len(text)
      tagBlockName == tagTypes[getNodeName(node)].name
      blocks == IF HasBlock(m.blocks, tagBlockName) THEN m.blocks
                ELSE SetBlock(m.blocks, tagBlockName, "model", <<>>)
      block == BlockOf(blocks, tagBlockName)
      blockLen == Len(block)
      lastBlockEndIndex == blockLen
  IN  IF start # end
      THEN [m EXCEPT !.blocks =
              SetBlock(blocks, tagBlockName, "model",
                IF blockLen >= 2 /\ block[lastBlockEndIndex] >= start
                THEN [block EXCEPT ![lastBlockEndIndex] = Max(@, end)]
                ELSE block \o <<start, end>>)]
      ELSE m

propertied(m, node) ==
  LET start == Len(m.text)
      text == getContentText(node)
      end == start + Len(text)
      obj == [start |-> start, end |-> end, attrs |-> getAttributes(node)]
      tagBlockName == tagTypes[node.nodeName].name
      block == IF HasBlock(m.blocks, tagBlockName)
               THEN BlockOf(m.blocks, tagBlockName) ELSE <<>>
  IN  IF start # end
      THEN [m EXCEPT !.blocks = SetBlock(m.blocks, tagBlockName, "model", Append(block, obj))]
      ELSE m

singled(m, node) ==
  LET pos == Len(m.text)
      tagBlockName == tagTypes[getNodeName(node)].name
      block == IF HasBlock(m.blocks, tagBlockName)
               THEN BlockOf(m.blocks, tagBlockName) ELSE <<>>
  IN  [m EXCEPT !.blocks = SetBlock(m.blocks, tagBlockName, "model", Append(block, pos))]

\* the body of fromElement's loop for one node the walker returns
visitNode(m, node) ==
  IF node.nodeName = "#text"
  THEN [m EXCEPT !.text = @ \o node.nodeValue]
  ELSE LET type == tagTypes[getNodeName(node)].set
       IN  CASE type = "continuous" -> continuous(m, node)
             [] type = "propertied" -> propertied(m, node)
             [] type = "singled" -> singled(m, node)

RECURSIVE walkNodes(_, _, _)
\* the TreeWalker(nodeFilter, knownTagsOnly) loop over these children of a
\* node named parentName: document order, a node the filter does not accept
\* is passed over and its children are still visited
walkNodes(childNodes, parentName, m) ==
  IF childNodes = <<>> THEN m
  ELSE LET node == Head(childNodes)
           m1 == IF knownTagsOnly(node, parentName) THEN visitNode(m, node) ELSE m
           m2 == walkNodes(node.childNodes, node.nodeName, m1)
       IN  walkNodes(Tail(childNodes), parentName, m2)

normalizeElementAsDocument(elem) ==
  IF elem.nodeName # "#document-fragment" THEN DocumentFragment(<<elem>>) ELSE elem

fromElement(elem) ==
  LET root == normalizeElementAsDocument(elem)
  IN  walkNodes(root.childNodes, root.nodeName, EmptyModel)

(***************************************************************************)
(* Lodash and String helpers, as index.js uses them                        *)
(***************************************************************************)
take(list, n) == SubSeq(list, 1, Min(Max(n, 0), Len(list)))

drop(list, n) == SubSeq(list, Min(Max(n, 0), Len(list)) + 1, Len(list))

dropRight(list, n) == SubSeq(list, 1, Len(list) - Min(Max(n, 0), Len(list)))

\* _.map over an array: the array of the callback's results
map(list, Op(_)) ==
  LET f[i \in 0..Len(list)] == IF i = 0 THEN <<>> ELSE Append(f[i - 1], Op(list[i]))
  IN  f[Len(list)]

\* _.each / _.forOwn over the entries of an object, threading what the
\* callback updates
each(entries, acc, Op(_, _)) ==
  LET f[i \in 0..Len(entries)] == IF i = 0 THEN acc ELSE Op(f[i - 1], entries[i])
  IN  f[Len(entries)]

\* String.prototype.substr(start, length)
substr(str, start, length) ==
  LET from == IF start < 0 THEN Max(Len(str) + start, 0) ELSE Min(start, Len(str))
      size == Min(Max(length, 0), Len(str) - from)
  IN  SubSeq(str, from + 1, from + size)

\* a substr(start) that begins one character late
substrFrom_Late(str, start) == substr(str, start + 1, Len(str))

\* String.prototype.substr(start)
substrFrom(str, start) == substr(str, start, Len(str))

\* _.assign(blocks, source)
assign(blocks, source) ==
  each(source, blocks, LAMBDA acc, e : SetBlock(acc, e.kind, e.ref, e.list))

getBlocksOfType(blocks, type) ==
  SelectSeq(blocks, LAMBDA e : blockTypes[e.kind].set = type)

(***************************************************************************)
(* Binary search                                                           *)
(***************************************************************************)
RECURSIVE binarySearch(_, _, _, _)
\* the while loop of getBinarySortedInsertPosition; list is indexed from 0
\* in the source and from 1 here
binarySearch(list, value, low, high) ==
  IF low <= high
  THEN LET midpoint == low + ((high - low) \div 2)
           midValue == list[midpoint + 1]
       IN  IF midValue < value THEN binarySearch(list, value, midpoint + 1, high)
           ELSE IF midValue > value THEN binarySearch(list, value, low, midpoint - 1)
           ELSE midpoint
  ELSE low

getBinarySortedInsertPosition(list, value) == binarySearch(list, value, 0, Len(list) - 1)

(***************************************************************************)
(* Split.  ba is [before, after], the two models being filled.             *)
(***************************************************************************)
\* the callback of splitPropertiedBlocks for one propertied block
splitPropertiedBlock(lists, block, n) ==
  IF block.start < n /\ block.end < n
  THEN [lists EXCEPT !.beforeBlocks = Append(@, block)]
  ELSE IF block.start > n /\ block.end > n
  THEN [lists EXCEPT !.afterBlocks =
          Append(@, [block EXCEPT !.start = block.start - n, !.end = block.end - n])]
  ELSE [beforeBlocks |-> Append(lists.beforeBlocks, [block EXCEPT !.end = n]),
        afterBlocks |-> Append(lists.afterBlocks,
                               [block EXCEPT !.start = 0, !.end = block.end - n])]

splitPropertiedBlocks(m, ba, n) ==
  each(getBlocksOfType(m.blocks, "propertied"), ba,
    LAMBDA acc, e :
      LET lists == each(e.list, [beforeBlocks |-> <<>>, afterBlocks |-> <<>>],
                        LAMBDA l, block : splitPropertiedBlock(l, block, n))
          b1 == IF Len(lists.beforeBlocks) > 0
                THEN [acc.before EXCEPT !.blocks = SetBlock(@, e.kind, "before", lists.beforeBlocks)]
                ELSE acc.before
          a1 == IF Len(lists.afterBlocks) > 0
                THEN [acc.after EXCEPT !.blocks = SetBlock(@, e.kind, "after", lists.afterBlocks)]
                ELSE acc.after
      IN  [before |-> b1, after |-> a1])

\* the callback of splitContinuousBlocks for the array of one kind
splitContinuousBlock(blocks, n) ==
  LET index == getBinarySortedInsertPosition(blocks, n)
  IN  IF index % 2 = 1
      THEN [beforeBlocks |-> take(blocks, index - 1) \o <<blocks[index], n>>,
            afterBlocks |-> <<0, blocks[index + 1] - n>>
                            \o map(drop(blocks, index + 1), LAMBDA value : value - n)]
      ELSE [beforeBlocks |-> take(blocks, index),
            afterBlocks |-> map(drop(blocks, index), LAMBDA value : value - n)]

splitContinuousBlocks(m, ba, n) ==
  each(getBlocksOfType(m.blocks, "continuous"), ba,
    LAMBDA acc, e :
      LET lists == splitContinuousBlock(e.list, n)
      IN  [before |-> [acc.before EXCEPT !.blocks = SetBlock(@, e.kind, "before", lists.beforeBlocks)],
           after |-> [acc.after EXCEPT !.blocks = SetBlock(@, e.kind, "after", lists.afterBlocks)]])

\* a split of marks that keeps the mark at the offset, in before
splitSingledBlock_KeepSeam(lists, pos, n) ==
  IF pos <= n THEN [lists EXCEPT !.beforeBlocks = Append(@, pos)]
  ELSE [lists EXCEPT !.afterBlocks = Append(@, pos - n)]

\* the callback of splitSingledBlocks for one position
splitSingledBlock(lists, pos, n) ==
  IF pos < n THEN [lists EXCEPT !.beforeBlocks = Append(@, pos)]
  ELSE IF pos > n THEN [lists EXCEPT !.afterBlocks = Append(@, pos - n)]
  ELSE lists

splitSingledBlocks(m, ba, n) ==
  each(getBlocksOfType(m.blocks, "singled"), ba,
    LAMBDA acc, e :
      LET lists == each(e.list, [beforeBlocks |-> <<>>, afterBlocks |-> <<>>],
                        LAMBDA l, pos : splitSingledBlock(l, pos, n))
          b1 == IF Len(lists.beforeBlocks) > 0
                THEN [acc.before EXCEPT !.blocks = SetBlock(@, e.kind, "before", lists.beforeBlocks)]
                ELSE acc.before
          a1 == IF Len(lists.afterBlocks) > 0
                THEN [acc.after EXCEPT !.blocks = SetBlock(@, e.kind, "after", lists.afterBlocks)]
                ELSE acc.after
      IN  [before |-> b1, after |-> a1])

\* split(model, num): no statement of it throws, whatever num is
split(m, n) ==
  LET ba0 == [before |-> [text |-> substr(m.text, 0, n), blocks |-> <<>>],
              after |-> [text |-> substrFrom(m.text, n), blocks |-> <<>>]]
      ba1 == splitPropertiedBlocks(m, ba0, n)
      ba2 == splitContinuousBlocks(m, ba1, n)
  IN  splitSingledBlocks(m, ba2, n)

(***************************************************************************)
(* Concat                                                                  *)
(***************************************************************************)
\* the _.each over before's blocks that the three concat helpers share:
\* sameArray says whether a kind that after lacks gets before's own array
\* (concatContinuousBlocks) or a deep clone of it; Join joins the two arrays
\* of a kind both have
concatOnto(mergedBlocks, beforeBlocks, sameArray, Join(_, _)) ==
  each(beforeBlocks, mergedBlocks,
    LAMBDA acc, e :
      IF HasBlock(acc, e.kind)
      THEN SetBlock(acc, e.kind, "merged", Join(e.list, BlockOf(acc, e.kind)))
      ELSE SetBlock(acc, e.kind, IF sameArray THEN e.ref ELSE "merged", e.list))

concatPropertiedBlocks(b, a, m) ==
  LET n == Len(b.text)
      shifted == map(getBlocksOfType(a.blocks, "propertied"),
                   LAMBDA e : [kind |-> e.kind, ref |-> "merged",
                               list |-> map(e.list, LAMBDA block :
                                 [block EXCEPT !.start = @ + n, !.end = @ + n])])
      mergedBlocks == concatOnto(shifted, getBlocksOfType(b.blocks, "propertied"), FALSE,
                                 LAMBDA blocks, rest : blocks \o rest)
  IN  [m EXCEPT !.blocks = assign(@, mergedBlocks)]

\* a join of two continuous arrays that never merges at the seam
joinContinuous_NoMerge(blocks, rest, n) == blocks \o rest

\* the array concatContinuousBlocks makes of the arrays of a kind both have
joinContinuous(blocks, rest, n) ==
  IF Len(blocks) > 0 /\ blocks[Len(blocks)] = n /\ Len(rest) > 0 /\ rest[1] = n
  THEN dropRight(blocks, 1) \o drop(rest, 1)
  ELSE blocks \o rest

concatContinuousBlocks(b, a, m) ==
  LET n == Len(b.text)
      shifted == map(getBlocksOfType(a.blocks, "continuous"),
                   LAMBDA e : [kind |-> e.kind, ref |-> "merged",
                               list |-> map(e.list, LAMBDA value : value + n)])
      mergedBlocks == concatOnto(shifted, getBlocksOfType(b.blocks, "continuous"), TRUE,
                                 LAMBDA blocks, rest : joinContinuous(blocks, rest, n))
  IN  [m EXCEPT !.blocks = assign(@, mergedBlocks)]

concatSingledBlocks(b, a, m) ==
  LET n == Len(b.text)
      shifted == map(getBlocksOfType(a.blocks, "singled"),
                   LAMBDA e : [kind |-> e.kind, ref |-> "merged",
                               list |-> map(e.list, LAMBDA block : block + n)])
      mergedBlocks == concatOnto(shifted, getBlocksOfType(b.blocks, "singled"), FALSE,
                                 LAMBDA blocks, rest : blocks \o rest)
  IN  [m EXCEPT !.blocks = assign(@, mergedBlocks)]

concat(b, a) ==
  LET m0 == [text |-> b.text \o a.text, blocks |-> <<>>]
      m1 == concatPropertiedBlocks(b, a, m0)
      m2 == concatContinuousBlocks(b, a, m1)
  IN  concatSingledBlocks(b, a, m2)

(***************************************************************************)
(* Emit: toElement.  A tree being edited is [status, childNodes]: the      *)
(* children of the root fragment, and "ok" until a statement throws        *)
(* ("throws") or a loop stops ending ("hangs").                            *)
(***************************************************************************)
\* value || fallback, undefined being -1
orElse(value, fallback) == IF value = -1 \/ value = 0 THEN fallback ELSE value

RECURSIVE textNodesUnder(_, _)
\* the nodeValues of the text nodes a TreeWalker(SHOW_TEXT, contentTextOnly)
\* returns under these children, in document order
textNodesUnder(childNodes, parentName) ==
  IF childNodes = <<>> THEN <<>>
  ELSE LET node == Head(childNodes)
           own == IF node.nodeName = "#text"
                  THEN IF contentTextOnly(parentName) THEN <<node.nodeValue>> ELSE <<>>
                  ELSE textNodesUnder(node.childNodes, node.nodeName)
       IN  own \o textNodesUnder(Tail(childNodes), parentName)

RECURSIVE walkToStart(_, _, _, _)
\* the first loop of getTextNodeTargets: i is the text node the walker is at
\* (nextNode() at the last one leaves it there), strLen is str.length
walkToStart(values, start, i, strLen) ==
  IF strLen + Len(values[i]) < start
  THEN IF i = Len(values) /\ Len(values[i]) = 0
       THEN [status |-> "hangs", i |-> i, strLen |-> strLen]
       ELSE walkToStart(values, start, Min(i + 1, Len(values)), strLen + Len(values[i]))
  ELSE [status |-> "ok", i |-> i, strLen |-> strLen]

RECURSIVE walkToEnd(_, _, _, _, _)
\* the second loop of getTextNodeTargets
walkToEnd(values, end, i, strLen, list) ==
  IF strLen < end
  THEN LET j == Min(i + 1, Len(values))
       IN  IF j = i /\ Len(values[j]) = 0
           THEN [status |-> "hangs", i |-> i, strLen |-> strLen, list |-> list]
           ELSE walkToEnd(values, end, j, strLen + Len(values[j]),
                          Append(list, [node |-> j, start |-> -1, end |-> -1]))
  ELSE [status |-> "ok", i |-> i, strLen |-> strLen, list |-> list]

\* getTextNodeTargets(el, start, end): a target is [node, start, end], node
\* being the text node's place among the text nodes of el, and -1 a key the
\* object does not have. With no text node under el the walker stays on el,
\* whose nodeValue is null, and reading its length throws.
getTextNodeTargets(childNodes, start, end) ==
  LET values == textNodesUnder(childNodes, "#document-fragment")
  IN  IF values = <<>> THEN [status |-> "throws", list |-> <<>>]
      ELSE LET s == walkToStart(values, start, 1, 0)
               first == [node |-> s.i, start |-> start - s.strLen, end |-> -1]
               e == walkToEnd(values, end, s.i, s.strLen + Len(values[s.i]), <<first>>)
               last == Len(e.list)
           IN  IF s.status # "ok" THEN [status |-> s.status, list |-> <<>>]
               ELSE IF e.status # "ok" THEN [status |-> e.status, list |-> <<>>]
               ELSE [status |-> "ok",
                     list |-> [e.list EXCEPT ![last].end =
                                 Len(values[e.i]) - (e.strLen - end)]]

\* what splitTextNode leaves in place of the text node item.node
splitTextNode(blockType, blockAttributes, item, text) ==
  LET startPos == orElse(item.start, 0)
      endPos == orElse(item.end, Len(text))
      startText == substr(text, 0, startPos)
      middleText == substr(text, startPos, endPos - startPos)
      endText == substrFrom(text, endPos)
      tagName == blockTypes[blockType].name
      blockEl == Element(tagName, blockAttributes, <<domify(middleText)>>)
  IN  IF startPos = endPos THEN <<TextNode(text)>>
      ELSE (IF Len(startText) > 0 THEN <<domify(startText)>> ELSE <<>>)
           \o <<blockEl>>
           \o (IF Len(endText) > 0 THEN <<TextNode(endText)>> ELSE <<>>)

\* what addSingledBlocks leaves in place of the text node item.node; an
\* item without start gives substr(0, undefined) and substr(undefined), the
\* whole text both
addSingledBlocks(blockType, item, text) ==
  LET pos == item.start
      startText == IF pos = -1 THEN text ELSE substr(text, 0, pos)
      endText == IF pos = -1 THEN text ELSE substrFrom(text, pos)
      tagName == blockTypes[blockType].name
      blockEl == Element(tagName, {}, <<>>)
  IN  (IF Len(startText) > 0 THEN <<domify(startText)>> ELSE <<>>)
      \o <<blockEl>>
      \o (IF Len(endText) > 0 THEN <<TextNode(endText)>> ELSE <<>>)

\* one call of the _.each callback on the text node of item, which earlier
\* calls on the same node have left as cur: the nodes put before it, its
\* nodeValue, and whether it is still in the tree.  A call that changes
\* nothing returns before it touches the tree; any other call on a node no
\* longer in the tree throws at insertBefore
callOnTarget(cur, item, how) ==
  LET text == cur.text
      returnsEarly == /\ ~how.single
                      /\ orElse(item.start, 0) = orElse(item.end, Len(text))
      pieces == IF how.single THEN addSingledBlocks(how.blockType, item, text)
                ELSE splitTextNode(how.blockType, how.attributes, item, text)
      endText == IF how.single
                 THEN (IF item.start = -1 THEN text ELSE substrFrom(text, item.start))
                 ELSE substrFrom(text, orElse(item.end, Len(text)))
      kept == Len(endText) > 0
  IN  IF cur.status # "ok" \/ returnsEarly THEN cur
      ELSE IF ~cur.attached THEN [cur EXCEPT !.status = "throws"]
      ELSE [status |-> "ok",
            before |-> cur.before \o (IF kept THEN SubSeq(pieces, 1, Len(pieces) - 1)
                                      ELSE pieces),
            text |-> IF kept THEN endText ELSE text,
            attached |-> kept]

\* the calls of the _.each callback on one text node, in the order of the
\* list: getTextNodeTargets names the last text node more than once when the
\* range ends beyond the text
callsOnTarget(items, text, how) ==
  each(items, [status |-> "ok", before |-> <<>>, text |-> text, attached |-> TRUE],
       LAMBDA cur, item : callOnTarget(cur, item, how))

RECURSIVE eachTarget(_, _, _, _, _)
\* _.each(list, splitTextNode...) or _.each(list, addSingledBlocks...) on
\* the tree: every text node the list names is replaced where it stands by
\* what the calls on it leave; first is the place of the first text node
\* under childNodes
eachTarget(childNodes, parentName, first, list, how) ==
  IF childNodes = <<>> THEN <<>>
  ELSE LET node == Head(childNodes)
           isText == node.nodeName = "#text"
           counted == IF isText THEN (IF contentTextOnly(parentName) THEN 1 ELSE 0)
                      ELSE Len(textNodesUnder(node.childNodes, node.nodeName))
           items == SelectSeq(list, LAMBDA item : item.node = first)
           hit == isText /\ counted = 1 /\ items # <<>>
           left == callsOnTarget(items, node.nodeValue, how)
           here == IF hit
                   THEN left.before \o (IF left.attached THEN <<TextNode(left.text)>> ELSE <<>>)
                   ELSE IF isText THEN <<node>>
                   ELSE <<[node EXCEPT !.childNodes =
                             eachTarget(node.childNodes, node.nodeName, first, list, how)]>>
       IN  here \o eachTarget(Tail(childNodes), parentName, first + counted, list, how)

\* whether a call of the _.each over the list throws
eachTargetStatus(childNodes, list, how) ==
  LET values == textNodesUnder(childNodes, "#document-fragment")
  IN  IF \E n \in DOMAIN values :
           callsOnTarget(SelectSeq(list, LAMBDA item : item.node = n), values[n], how).status
             = "throws"
      THEN "throws" ELSE "ok"

\* one getTextNodeTargets and the _.each over its list
addBlock(tree, start, end, how) ==
  IF tree.status # "ok" THEN tree
  ELSE LET targets == getTextNodeTargets(tree.childNodes, start, end)
       IN  IF targets.status # "ok" THEN [tree EXCEPT !.status = targets.status]
           ELSE [status |-> eachTargetStatus(tree.childNodes, targets.list, how),
                 childNodes |->
                   eachTarget(tree.childNodes, "#document-fragment", 1, targets.list, how)]

addPropertiedBlocksToElement(tree, m) ==
  each(getBlocksOfType(m.blocks, "propertied"), tree,
    LAMBDA t, e :
      each(e.list, t,
        LAMBDA t2, block :
          addBlock(t2, block.start, block.end,
                   [single |-> FALSE, blockType |-> e.kind, attributes |-> block.attrs])))

getOverlapCount(blockA, blockB) ==
  Cardinality({j \in 1..(Len(blockB) \div 2) :
     getBinarySortedInsertPosition(blockA, blockB[2 * j - 1])
       # getBinarySortedInsertPosition(blockA, blockB[2 * j])})

\* a sortContinuousBlocks that leaves the order of the mapping as it is
sortContinuousBlocks_Keep(blocks) == blocks

\* blocks holds arrays of even length only
sortContinuousBlocks(blocks) ==
  IF Len(blocks) = 2
  THEN LET forwardCount == getOverlapCount(blocks[1].list, blocks[2].list)
           backwardCount == getOverlapCount(blocks[2].list, blocks[1].list)
       IN  IF forwardCount > backwardCount THEN <<blocks[2], blocks[1]>> ELSE blocks
  ELSE blocks

addContinuousBlocksToElement(tree, m) ==
  each(sortContinuousBlocks(getBlocksOfType(m.blocks, "continuous")), tree,
    LAMBDA t, e :
      each([j \in 1..(Len(e.list) \div 2) |-> <<e.list[2 * j - 1], e.list[2 * j]>>], t,
        LAMBDA t2, pair :
          addBlock(t2, pair[1], pair[2],
                   [single |-> FALSE, blockType |-> e.kind, attributes |-> {}])))

addSingledBlocksToElement(tree, m) ==
  each(getBlocksOfType(m.blocks, "singled"), tree,
    LAMBDA t, e :
      each(e.list, t,
        LAMBDA t2, pos :
          addBlock(t2, pos, pos,
                   [single |-> TRUE, blockType |-> e.kind, attributes |-> {}])))

toElement(m) ==
  LET t0 == [status |-> "ok", childNodes |-> <<domify(m.text)>>]
      t1 == addPropertiedBlocksToElement(t0, m)
      t2 == addContinuousBlocksToElement(t1, m)
  IN  addSingledBlocksToElement(t2, m)

(***************************************************************************)
(* The state machine.  A caller ingests a tree, and then splits, concats   *)
(* and emits the models it holds.                                          *)
(*   phase    "walk": fromElement is in its loop; "ready": model is a      *)
(*            model the caller holds; "split": split(model, num) returned  *)
(*            [before, after]; "concat": concat(before, after) returned    *)
(*            merged; "joined": a concat of model and other.model, a model *)
(*            ingested on its own, returned merged;                        *)
(*            "emitted": toElement(model) returned el or threw;            *)
(*            "reingested": fromElement(el) returned again                 *)
(*   origin   "ingest" while model is what fromElement returned            *)
(*   pending  the text lengths at which the elements the walker is inside  *)
(*            of end                                                       *)
(*   visited  the elements the walker returned so far                      *)
(*   other    the model of another tree, and whether the concat was given  *)
(*            model first                                                  *)
(***************************************************************************)
NoTree == [status |-> "ok", childNodes |-> <<>>]

\* the tags of the elements of the trees ingested
WalkTags == {"B", "EM", "A", "BR"}

\* the attributes of an element of the trees ingested
AttributesOf(tagName) == IF tagName = "A" THEN {<<"href", "x">>} ELSE {}

\* the same model, its arrays named as the allocations of one call
held(m, ref) == [m EXCEPT !.blocks = map(@, LAMBDA e : [e EXCEPT !.ref = ref])]

Init ==
  /\ phase = "walk"
  /\ origin = "ingest"
  /\ model = EmptyModel
  /\ pending = {}
  /\ visited = 0
  /\ num = 0
  /\ before = EmptyModel
  /\ after = EmptyModel
  /\ other = [first |-> TRUE, model |-> EmptyModel]
  /\ merged = EmptyModel
  /\ el = NoTree
  /\ again = EmptyModel

\* the walker returns a text node: the next character of the text
VisitText ==
  /\ phase = "walk"
  /\ Len(model.text) < MaxText
  /\ model' = visitNode(model, TextNode(<<Alphabet[Len(model.text) + 1]>>))
  /\ pending' = {e \in pending : e > Len(model.text) + 1}
  /\ UNCHANGED <<phase, origin, visited, num, before, after, other, merged, el, again>>

\* the walker returns an element whose content text is the next size
\* characters: it lies inside every element the walker is inside of
VisitElement(tagName, size) ==
  /\ phase = "walk"
  /\ visited < MaxElements
  /\ Len(model.text) + size <= MaxText
  /\ \A e \in pending : Len(model.text) + size <= e
  /\ tagName = "BR" => size = 0
  /\ LET start == Len(model.text)
         content == IF size = 0 THEN <<>>
                    ELSE <<TextNode(SubSeq(Alphabet, start + 1, start + size))>>
     IN  model' = visitNode(model, Element(tagName, AttributesOf(tagName), content))
  /\ pending' = IF size > 0 THEN pending \cup {Len(model.text) + size} ELSE pending
  /\ visited' = visited + 1
  /\ UNCHANGED <<phase, origin, num, before, after, other, merged, el, again>>

\* walker.nextNode() returns null: fromElement returns model
EndWalk ==
  /\ phase = "walk"
  /\ pending = {}
  /\ phase' = "ready"
  /\ visited' = 0
  /\ UNCHANGED <<origin, model, pending, num, before, after, other, merged, el, again>>

\* [before, after] = split(model, offset), also with offset out of range
Split(offset) ==
  /\ phase = "ready"
  /\ LET ba == split(model, offset)
     IN  before' = ba.before /\ after' = ba.after
  /\ num' = offset
  /\ phase' = "split"
  /\ UNCHANGED <<origin, model, pending, visited, other, merged, el, again>>

\* the split was given an offset of the text
InBounds == 0 <= num /\ num <= Len(model.text)

\* merged = concat(before, after), of the two models a split in bounds
\* returned
Concat ==
  /\ phase = "split"
  /\ InBounds
  /\ merged' = concat(before, after)
  /\ phase' = "concat"
  /\ UNCHANGED <<origin, model, pending, visited, num, before, after, other, el, again>>

\* the trees a caller ingests to concat their models with model
OtherTrees ==
  {TextNode(<<"z">>)}
    \cup {Element(tagName, AttributesOf(tagName),
                  IF tagName = "BR" THEN <<>> ELSE <<TextNode(<<"z">>)>>) :
            tagName \in WalkTags}

\* merged = concat(model, o) or concat(o, model), o = fromElement(tree)
Join(tree, modelFirst) ==
  /\ phase = "ready"
  /\ LET o == held(fromElement(tree), "other")
     IN  /\ Len(model.text) + Len(o.text) <= MaxText
         /\ other' = [first |-> modelFirst, model |-> o]
         /\ merged' = IF modelFirst THEN concat(model, o) ELSE concat(o, model)
  /\ phase' = "joined"
  /\ UNCHANGED <<origin, model, pending, visited, num, before, after, el, again>>

\* the caller goes on with one of the two models a split in bounds returned
Adopt(half) ==
  /\ phase = "split"
  /\ InBounds
  /\ model' = held(half, "model")
  /\ phase' = "ready"
  /\ origin' = "derived"
  /\ num' = 0
  /\ before' = EmptyModel
  /\ after' = EmptyModel
  /\ UNCHANGED <<pending, visited, other, merged, el, again>>

\* el = toElement(model)
Emit ==
  /\ phase = "ready"
  /\ el' = toElement(model)
  /\ phase' = "emitted"
  /\ UNCHANGED <<origin, model, pending, visited, num, before, after, other, merged, again>>

\* again = fromElement(el)
Reingest ==
  /\ phase = "emitted"
  /\ el.status = "ok"
  /\ again' = held(fromElement(DocumentFragment(el.childNodes)), "again")
  /\ phase' = "reingested"
  /\ UNCHANGED <<origin, model, pending, visited, num, before, after, other, merged, el>>

Next ==
  \/ VisitText
  \/ \E tagName \in WalkTags, size \in 0..MaxText : VisitElement(tagName, size)
  \/ EndWalk
  \/ \E offset \in -1..(MaxText + 1) : offset <= Len(model.text) + 1 /\ Split(offset)
  \/ Concat
  \/ \E tree \in OtherTrees, modelFirst \in BOOLEAN : Join(tree, modelFirst)
  \/ Adopt(before)
  \/ Adopt(after)
  \/ Emit
  \/ Reingest

Spec == Init /\ [][Next]_vars

(***************************************************************************)
(* What the claims speak of                                                *)
(***************************************************************************)
\* blocks[blockName], or the empty list when blocks has no such key
ListOf(m, blockName) ==
  IF HasBlock(m.blocks, blockName) THEN BlockOf(m.blocks, blockName) ELSE <<>>

KindsOf(m) == {m.blocks[i].kind : i \in DOMAIN m.blocks}

\* the continuous-list invariant: even length, strictly ascending
ValidContinuous(list) ==
  /\ Len(list) % 2 = 0
  /\ \A i \in 1..(Len(list) - 1) : list[i] < list[i + 1]

ContinuousValid(m) ==
  \A i \in DOMAIN m.blocks :
    blockTypes[m.blocks[i].kind].set = "continuous" => ValidContinuous(m.blocks[i].list)

\* the allocations of the arrays a model holds
RefsOf(m) == {<<m.blocks[i].kind, m.blocks[i].ref>> : i \in DOMAIN m.blocks}

\* a split, and the split a concat was given the halves of, had an offset
\* of the text
SplitInBounds == phase \in {"split", "concat"} /\ InBounds

\* the elements of list that satisfy Test, in order
Filter(list, Test(_)) == SelectSeq(list, Test)

\* the concatenation of the sequences Piece(list[1]), Piece(list[2]), ...
FlatMap(list, Piece(_)) ==
  LET f[i \in 0..Len(list)] == IF i = 0 THEN <<>> ELSE f[i - 1] \o Piece(list[i])
  IN  f[Len(list)]

\* the [start, end] pairs of a continuous list of even length
PairsOf(list) == [j \in 1..(Len(list) \div 2) |-> <<list[2 * j - 1], list[2 * j]>>]

\* how often x occurs in list
Count(list, x) == Cardinality({i \in DOMAIN list : list[i] = x})

\* the same entries, whatever their order
SameEntries(l1, l2) ==
  /\ Len(l1) = Len(l2)
  /\ \A i \in DOMAIN l1 : Count(l1, l1[i]) = Count(l2, l1[i])

\* structurally equal Range Models: the same text, the same kinds, and for
\* each kind the same pairs, entries or positions
SameModel(m1, m2) ==
  /\ m1.text = m2.text
  /\ KindsOf(m1) = KindsOf(m2)
  /\ \A k \in KindsOf(m1) :
       IF blockTypes[k].set = "continuous"
       THEN ListOf(m1, k) = ListOf(m2, k)
       ELSE SameEntries(ListOf(m1, k), ListOf(m2, k))

(***************************************************************************)
(* The claims                                                              *)
(***************************************************************************)

\* C1: every model held -- the one fromElement builds, the two a split at an
\* offset of the text returns, the one a concat returns, and every model
\* adopted from them -- keeps the continuous-list invariant: each continuous
\* list has even length and is strictly ascending (no pair [x,x], no two
\* pairs that overlap or touch).
C1_ContinuousInvariant ==
  /\ ContinuousValid(model)
  /\ SplitInBounds => ContinuousValid(before) /\ ContinuousValid(after)
  /\ phase \in {"concat", "joined"} => ContinuousValid(merged)

\* C2: split(model, k) with 0 <= k <= model.text.length returns before.text,
\* the first k characters of model.text, and after.text, the rest; and
\* concat(before, after).text is model.text.
C2_SplitConcatText ==
  /\ SplitInBounds =>
       /\ before.text = SubSeq(model.text, 1, num)
       /\ after.text = SubSeq(model.text, num + 1, Len(model.text))
  /\ phase = "concat" => merged.text = model.text

\* C2: a split strictly inside a text of three characters or more, and the
\* concat of its halves
C2_Witness ==
  /\ phase = "concat"
  /\ Len(model.text) >= 3
  /\ 0 < num /\ num < Len(model.text)
  /\ Len(before.text) = num
  /\ merged.text = model.text

\* a continuous list has a pair [s, e] with s < k < e
StrictlyInside(list, k) ==
  \E j \in 1..(Len(list) \div 2) : list[2 * j - 1] < k /\ k < list[2 * j]

\* C3: when the continuous lists of model keep the invariant and a span of a
\* kind strictly contains k, concat(...split(model, k)) holds for that kind
\* the list model holds: the two halves of the span are merged at the seam
\* and every other pair is restored.
C3_ContinuousRoundTrip ==
  (phase = "concat" /\ ContinuousValid(model)) =>
    \A i \in DOMAIN model.blocks :
      LET e == model.blocks[i]
      IN  (blockTypes[e.kind].set = "continuous" /\ StrictlyInside(e.list, num)) =>
            /\ HasBlock(merged.blocks, e.kind)
            /\ BlockOf(merged.blocks, e.kind) = e.list

\* C3: a concat of the halves of a split inside a span of a kind that has
\* another pair, the halves holding [s, k] last and [0, e - k] first
C3_Witness ==
  /\ phase = "concat"
  /\ ContinuousValid(model)
  /\ \E i \in DOMAIN model.blocks :
       LET e == model.blocks[i]
       IN  /\ blockTypes[e.kind].set = "continuous"
           /\ Len(e.list) >= 4
           /\ StrictlyInside(e.list, num)
           /\ ListOf(before, e.kind)[Len(ListOf(before, e.kind))] = num
           /\ ListOf(after, e.kind)[1] = 0
           /\ ListOf(merged, e.kind) = e.list

\* what C4 says before holds of a continuous list split at k
C4_Before(list, k) ==
  FlatMap(PairsOf(list),
    LAMBDA p : IF p[2] <= k THEN p ELSE IF p[1] < k THEN <<p[1], k>> ELSE <<>>)

\* what C4 says after holds of a continuous list split at k
C4_After(list, k) ==
  FlatMap(PairsOf(list),
    LAMBDA p : IF p[1] >= k THEN <<p[1] - k, p[2] - k>>
               ELSE IF p[2] > k THEN <<0, p[2] - k>> ELSE <<>>)

\* C4: split at an offset k of the text partitions every valid continuous
\* list: a span [s, e] with s < k < e becomes [s, k] in before and
\* [0, e - k] in after; every pair ending at or before k goes to before
\* unshifted, every pair starting at or after k goes to after shifted left
\* by k, and no other pair is added to either side.
C4_SplitContinuous ==
  SplitInBounds =>
    \A i \in DOMAIN model.blocks :
      LET e == model.blocks[i]
      IN  (blockTypes[e.kind].set = "continuous" /\ ValidContinuous(e.list)) =>
            /\ ListOf(before, e.kind) = C4_Before(e.list, num)
            /\ ListOf(after, e.kind) = C4_After(e.list, num)

\* what C5 says before holds of a propertied list split at k
C5_Before(list, k) ==
  FlatMap(list,
    LAMBDA b : IF b.end <= k THEN <<b>>
               ELSE IF b.start < k THEN <<[b EXCEPT !.end = k]>> ELSE <<>>)

\* what C5 says after holds of a propertied list split at k
C5_After(list, k) ==
  FlatMap(list,
    LAMBDA b : IF b.start >= k THEN <<[b EXCEPT !.start = b.start - k, !.end = b.end - k]>>
               ELSE IF b.end > k THEN <<[b EXCEPT !.start = 0, !.end = b.end - k]>>
               ELSE <<>>)

\* C5: split at an offset k of the text places every propertied range with
\* start < end: with end <= k in before alone, unchanged; with start >= k in
\* after alone, shifted left by k; and only with start < k < end in both,
\* as {..., end: k} and {..., start: 0, end: end - k}.
C5_SplitPropertied ==
  SplitInBounds =>
    \A i \in DOMAIN model.blocks :
      LET e == model.blocks[i]
      IN  (/\ blockTypes[e.kind].set = "propertied"
           /\ \A j \in DOMAIN e.list : e.list[j].start < e.list[j].end) =>
            /\ ListOf(before, e.kind) = C5_Before(e.list, num)
            /\ ListOf(after, e.kind) = C5_After(e.list, num)

\* C6: split at k sends each mark p < k of a singled kind to before
\* unchanged, each mark p > k to after as p - k, and a mark p = k to neither;
\* and the concat of the halves of a split at an offset of the text holds
\* the marks of model other than k, at their positions and in their order.
C6_SplitSingled ==
  \A i \in DOMAIN model.blocks :
    LET e == model.blocks[i]
    IN  blockTypes[e.kind].set = "singled" =>
          /\ phase \in {"split", "concat"} =>
               /\ ListOf(before, e.kind) = Filter(e.list, LAMBDA p : p < num)
               /\ ListOf(after, e.kind) =
                    map(Filter(e.list, LAMBDA p : p > num), LAMBDA p : p - num)
          /\ phase = "concat" =>
               ListOf(merged, e.kind) = Filter(e.list, LAMBDA p : p # num)

\* C6: a concat of the halves of a split at k of a model with a mark at k
\* and a mark after k: the first is gone, the second is back in place
C6_Witness ==
  /\ phase = "concat"
  /\ \E i \in DOMAIN model.blocks :
       LET e == model.blocks[i]
       IN  /\ blockTypes[e.kind].set = "singled"
           /\ \E j \in DOMAIN e.list : e.list[j] = num
           /\ \E j \in DOMAIN e.list : e.list[j] > num
           /\ Len(ListOf(merged, e.kind)) < Len(e.list)
           /\ ListOf(after, e.kind) # <<>>

\* C7: neither model a split at an offset of the text returns has a kind
\* whose list is empty.
C7_NoEmptyList ==
  SplitInBounds =>
    /\ \A i \in DOMAIN before.blocks : before.blocks[i].list # <<>>
    /\ \A i \in DOMAIN after.blocks : after.blocks[i].list # <<>>

\* C8: a split with an offset outside [0, model.text.length] fails: it
\* returns no [before, after].
C8_SplitRejectsOutOfRange ==
  phase = "split" => InBounds

\* C9: split and concat leave their input models as they were, and every
\* array of a model they return is a new allocation, none an array that an
\* input model holds.
C9_NoSideEffects ==
  [][/\ (phase = "ready" /\ phase' = "split") =>
          /\ model' = model
          /\ RefsOf(before') \cap RefsOf(model) = {}
          /\ RefsOf(after') \cap RefsOf(model) = {}
     /\ (phase = "split" /\ phase' = "concat") =>
          /\ before' = before /\ after' = after
          /\ RefsOf(merged') \cap (RefsOf(before) \cup RefsOf(after)) = {}
     /\ (phase = "ready" /\ phase' = "joined") =>
          /\ model' = model
          /\ RefsOf(merged') \cap (RefsOf(model') \cup RefsOf(other'.model)) = {}]_vars

\* C10: for a model that fromElement returned, toElement returns a tree and
\* fromElement of that tree returns a structurally equal model.
C10_RoundTrip ==
  origin = "ingest" =>
    /\ phase = "emitted" => el.status = "ok"
    /\ phase = "reingested" => SameModel(again, model)

\* the canonical kind name of a tag: the registry's name of the tag its
\* aliases resolve to
C11_KindName(tagName) ==
  tagTypes[IF tagName \in DOMAIN sameAs THEN sameAs[tagName] ELSE tagName].name

\* the tree <p><b>ab<i>cd</i>ef</b></p>
C11_Tree ==
  Element("P", {},
    <<Element("B", {},
        <<TextNode(<<"a", "b">>),
          Element("I", {}, <<TextNode(<<"c", "d">>)>>),
          TextNode(<<"e", "f">>)>>)>>)

\* fromElement of the tree has this text and these two continuous lists
C11_Ingests(boldName, boldList, emphasisList) ==
  LET m == fromElement(C11_Tree)
  IN  /\ m.text = <<"a", "b", "c", "d", "e", "f">>
      /\ ListOf(m, boldName) = boldList
      /\ ListOf(m, emphasisList[1]) = emphasisList[2]

\* the walker's step onto a continuous element of the tag with size
\* characters of content text
C11_Visits(tagName, size) ==
  /\ tagTypes[tagName].set = "continuous"
  /\ VisitElement(tagName, size)

\* the kind name the claim gives a tag: bold for B, and the canonical kind
\* name for the others (emphasis for I)
C11_StatedKindName(tagName) == IF tagName = "B" THEN "bold" ELSE C11_KindName(tagName)

\* C11 as stated: ingest records each continuous element's span (of one
\* character or more) under its
\* kind name, bold for a B element, as the pair [start, end], start the text
\* length when the element is visited and end = start + the length of its
\* content text; and <p><b>ab<i>cd</i>ef</b></p> ingests to text "abcdef",
\* bold [0,6] and emphasis [2,4].
C11_IngestAsStated ==
  [][\A tagName \in WalkTags, size \in 0..MaxText :
       (size > 0 /\ C11_Visits(tagName, size)) =>
         LET list == ListOf(model', C11_StatedKindName(tagName))
             start == Len(model.text)
         IN  /\ Len(list) >= 2
             /\ SubSeq(list, Len(list) - 1, Len(list)) = <<start, start + size>>
             /\ C11_Ingests("bold", <<0, 6>>, <<"emphasis", <<2, 4>>>>)]_vars

\* C11, amended: ingest records each continuous element with content text
\* under the canonical kind name of the tag its aliases resolve to (B is
\* STRONG, kind strong): as a new pair [start, end], start the text length
\* when the element is visited and end = start + the length of its content
\* text, or, when the kind's last pair ends at or after start, by raising
\* that pair's end to the larger of the two ends; an element without content
\* text records nothing.  <p><b>ab<i>cd</i>ef</b></p> ingests to text
\* "abcdef", strong [0,6] and emphasis [2,4], and no kind bold.
C11_IngestContinuous ==
  /\ [][\A tagName \in WalkTags, size \in 0..MaxText :
          C11_Visits(tagName, size) =>
            LET kind == C11_KindName(tagName)
                old == ListOf(model, kind)
                start == Len(model.text)
                end == start + size
            IN  IF size = 0 THEN model' = model
                ELSE /\ HasBlock(model'.blocks, kind)
                     /\ BlockOf(model'.blocks, kind) =
                          IF Len(old) >= 2 /\ old[Len(old)] >= start
                          THEN [old EXCEPT ![Len(old)] = Max(@, end)]
                          ELSE old \o <<start, end>>
                     /\ \A k \in KindsOf(model') \ {kind} :
                          ListOf(model', k) = ListOf(model, k)]_vars
  /\ C11_Ingests("strong", <<0, 6>>, <<"emphasis", <<2, 4>>>>)
  /\ "bold" \notin KindsOf(fromElement(C11_Tree))

\* C11: a walk that met two B elements apart from each other, each recorded
\* as a pair of kind strong, and the tree of the example ingested
C11_Witness ==
  /\ phase = "walk"
  /\ Len(model.text) >= 3
  /\ ListOf(model, "strong") = <<0, 1, 2, 3>>
  /\ "bold" \notin KindsOf(model)
  /\ ListOf(fromElement(C11_Tree), "strong") = <<0, 6>>

\* the sorted insertion position of value in list: how many entries are
\* less than value
C12_InsertPosition(list, value) == Cardinality({i \in DOMAIN list : list[i] < value})

\* crossings(X, Y): how many ranges of Y have a start and an end with
\* different sorted insertion positions in X
C12_Crossings(listX, listY) ==
  Cardinality({j \in 1..(Len(listY) \div 2) :
    C12_InsertPosition(listX, listY[2 * j - 1]) # C12_InsertPosition(listX, listY[2 * j])})

\* the continuous kinds of the model, in the order of its blocks mapping
C12_Continuous == getBlocksOfType(model.blocks, "continuous")

\* the order emit renders them in
C12_Rendered == sortContinuousBlocks(C12_Continuous)

RECURSIVE C12_Inside(_, _, _, _)
\* some element named inner lies under an element named outer in these
\* nodes; under says whether these nodes lie under an element named outer
C12_Inside(childNodes, outer, inner, under) ==
  \E i \in DOMAIN childNodes :
    LET node == childNodes[i]
    IN  \/ under /\ node.nodeName = inner
        \/ C12_Inside(node.childNodes, outer, inner, under \/ node.nodeName = outer)

\* three continuous kinds that, taken two at a time, would be reordered
C12_Three ==
  <<[kind |-> "strong", ref |-> "model", list |-> <<0, 1>>],
    [kind |-> "emphasis", ref |-> "model", list |-> <<1, 2>>],
    [kind |-> "del", ref |-> "model", list |-> <<2, 3>>]>>

\* C12: when emit is given a model with exactly two continuous kinds, A the
\* first in the blocks mapping and B the second, it renders A before B if
\* and only if crossings(A,B) <= crossings(B,A), and B before A otherwise;
\* the kind rendered first never ends up inside an element of the other;
\* with A = [0,10] and B = [5,15] crossings(A,B) = 1 and crossings(B,A) = 1,
\* with A = [0,20] and B = [5,10] crossings(A,B) = 0; with any other number
\* of continuous kinds the order of the mapping is kept.
C12_RenderOrder ==
  /\ phase = "emitted" =>
       /\ Len(C12_Continuous) = 2 =>
            LET A == C12_Continuous[1]
                B == C12_Continuous[2]
            IN  /\ C12_Rendered =
                     IF C12_Crossings(A.list, B.list) <= C12_Crossings(B.list, A.list)
                     THEN <<A, B>> ELSE <<B, A>>
                /\ getOverlapCount(A.list, B.list) = C12_Crossings(A.list, B.list)
                /\ getOverlapCount(B.list, A.list) = C12_Crossings(B.list, A.list)
                /\ el.status = "ok" =>
                     ~C12_Inside(el.childNodes, blockTypes[C12_Rendered[2].kind].name,
                                 blockTypes[C12_Rendered[1].kind].name, FALSE)
       /\ Len(C12_Continuous) # 2 => C12_Rendered = C12_Continuous
  /\ getOverlapCount(<<0, 10>>, <<5, 15>>) = 1
  /\ getOverlapCount(<<5, 15>>, <<0, 10>>) = 1
  /\ getOverlapCount(<<0, 20>>, <<5, 10>>) = 0
  /\ sortContinuousBlocks(C12_Three) = C12_Three

\* C12: an emitted model of two continuous kinds with valid lists where the
\* second crosses the first more often than the first the second, rendered
\* second kind first
C12_Witness ==
  /\ phase = "emitted"
  /\ el.status = "ok"
  /\ Len(C12_Continuous) = 2
  /\ ContinuousValid(model)
  /\ C12_Crossings(C12_Continuous[1].list, C12_Continuous[2].list)
       > C12_Crossings(C12_Continuous[2].list, C12_Continuous[1].list)
  /\ C12_Rendered = <<C12_Continuous[2], C12_Continuous[1]>>

\* C12: an emitted model of two continuous kinds, one inside the other,
\* rendered in the order of the mapping with the second inside the first
C12_WitnessNested ==
  /\ phase = "emitted"
  /\ el.status = "ok"
  /\ Len(C12_Continuous) = 2
  /\ C12_Rendered = C12_Continuous
  /\ C12_Inside(el.childNodes, blockTypes[C12_Rendered[1].kind].name,
                blockTypes[C12_Rendered[2].kind].name, FALSE)

====
